---- MODULE Spec2Model ----
(***************************************************************************)
(* Model of packages/vite/src/plugins/ssr-styles.ts (SSRStylesPlugin).     *)
(*                                                                         *)
(* Module identifiers are strings in the source.  Here a string is a       *)
(* sequence of tokens: the separators "/", ".", "?", "&" and atomic words  *)
(* that contain none of them, so that the prefix, suffix and regular       *)
(* expression tests of the source are computed on the identifier itself.   *)
(* The empty sequence stands for "", null and undefined (all falsy).       *)
(***************************************************************************)
EXTENDS Integers, Sequences, FiniteSets, Bags, TLC

Null == <<>>

(* ------------------------------ bounds --------------------------------- *)
\* how many resolver requests of the build may fail
MaxFailures == 1
\* how many modules the server build transforms
MaxTransforms == 2
\* how many tokens the identifiers given to the naming helper have at most
MaxNameLen == 5

(* ------------------------- string helpers ------------------------------ *)
SubSeqFrom(s, i) == SubSeq(s, i, Len(s))

StartsWith(s, p) == Len(s) >= Len(p) /\ SubSeq(s, 1, Len(p)) = p

EndsWith(s, p) == Len(s) >= Len(p) /\ SubSeq(s, Len(s) - Len(p) + 1, Len(s)) = p

\* index of the first occurrence of token t in s, 0 when absent
IndexOf(s, t) ==
  IF \E i \in 1..Len(s) : s[i] = t
  THEN CHOOSE i \in 1..Len(s) : s[i] = t /\ \A j \in 1..(i - 1) : s[j] # t
  ELSE 0

\* index of the last occurrence of token t in s, 0 when absent
LastIndexOf(s, t) ==
  IF \E i \in 1..Len(s) : s[i] = t
  THEN CHOOSE i \in 1..Len(s) : s[i] = t /\ \A j \in (i + 1)..Len(s) : s[j] # t
  ELSE 0

\* name.replace(/\?.+$/, ''): cut at the first "?" that has something after it
StripQuery(s) ==
  IF \E i \in 1..(Len(s) - 1) : s[i] = "?"
  THEN SubSeq(s, 1, (CHOOSE i \in 1..(Len(s) - 1) :
                        s[i] = "?" /\ \A j \in 1..(i - 1) : s[j] # "?") - 1)
  ELSE s

\* pathname of parseURL(decodeURIComponent(pathToFileURL(id).href))
pathname(id) ==
  IF IndexOf(id, "?") = 0 THEN id ELSE SubSeq(id, 1, IndexOf(id, "?") - 1)

\* search of parseURL(...): from the first "?" on, "" when there is none
search(id) ==
  IF IndexOf(id, "?") = 0 THEN Null ELSE SubSeqFrom(id, IndexOf(id, "?"))

\* ufo parseQuery: an optional leading "?" is dropped, the rest is split at
\* "&"; QueryHas(q, p) says that p is one of the resulting parameters
QueryHas(q, p) ==
  \E i \in 1..Len(q) :
     /\ q[i] = p
     /\ (i = 1 \/ q[i - 1] = "&" \/ (i = 2 /\ q[1] = "?"))
     /\ (i = Len(q) \/ q[i + 1] = "&")

\* pathe dirname of an absolute path
dirname(p) ==
  IF LastIndexOf(p, "/") <= 1 THEN <<"/">> ELSE SubSeq(p, 1, LastIndexOf(p, "/") - 1)

\* pathe/utils filename: last path segment without its last extension
_filename(p) ==
  LET base == SubSeqFrom(p, LastIndexOf(p, "/") + 1)
      dot  == LastIndexOf(base, ".")
  IN  IF base = Null THEN Null
      ELSE IF dot <= 1 THEN base
      ELSE SubSeq(base, 1, dot - 1)

\* mutant: the query is not cut off
filename_KeepQuery(name) == _filename(name)

\* filename(name) of lines 248-250
filename(name) == _filename(StripQuery(name))

(* ------------------------- the build's inputs -------------------------- *)
srcDir == <<"/", "src">>

InlineUsed == <<"?", "inline", "&", "used">>

EntryId  == <<"/", "src", "/", "entry", ".", "ts">>
AVue     == <<"/", "src", "/", "a", ".", "vue">>
AStyle   == AVue \o <<"?", "vue", "&", "type=style", "&", "lang", ".", "css">>
IVue     == <<"/", "src", "/", "i", ".", "vue">>
IMacro   == IVue \o <<"?", "macro=true">>
IWrapper == IVue \o <<"?", "nuxt_component=async">>
UTs      == <<"/", "src", "/", "u", ".", "ts">>
GCss     == <<"/", "src", "/", "g", ".", "css">>
XCss     == <<"/", "lib", "/", "x", ".", "css">>
BuildCss == <<"#build/css">>

entry == EntryId

globalCSS == <<GCss, XCss>>

\* the stylesheets of the build, and every module of the build
CssIds == {GCss, XCss, AStyle}

ModuleIds == {EntryId, AVue, AStyle, IVue, IMacro, IWrapper, UTs, GCss, XCss}

\* the modules the server build may transform
ServerModules == {EntryId, AVue, AStyle, IVue, IMacro, IWrapper, UTs, GCss}

\* the specifiers findStaticImports reports for the code of a module
Code(id) ==
  IF id = EntryId THEN << <<".", "/", "g", ".", "css">> >>
  ELSE IF id = AVue THEN << <<".", "/", "u", ".", "ts">>, XCss >>
  ELSE IF id = IVue THEN << <<".", "/", "g", ".", "css">> >>
  ELSE IF id = GCss THEN << XCss >>
  ELSE << >>

\* options.components
components ==
  << [filePath |-> IVue, pascalName |-> "I", mode |-> "server", island |-> FALSE],
     [filePath |-> AVue, pascalName |-> "A", mode |-> "server", island |-> FALSE],
     [filePath |-> AVue, pascalName |-> "A", mode |-> "client", island |-> FALSE],
     [filePath |-> UTs,  pascalName |-> "U", mode |-> "all",    island |-> TRUE] >>

\* the values options.shouldInline takes: absent, a boolean, or a predicate
ShouldInlineValues == {"undefined", "false", "true", "function"}

\* the predicate used when options.shouldInline is a function
\* (the documented example: id => id && id.includes('.vue'))
shouldInlineFn(id) ==
  \E i \in 1..(Len(id) - 1) : id[i] = "." /\ id[i + 1] = "vue"

\* the chunks the bundler may hand to renderChunk
Chunks ==
  << [facadeModuleId |-> EntryId, moduleIds |-> <<EntryId, GCss>>],
     [facadeModuleId |-> Null,    moduleIds |-> <<AVue, AStyle, EntryId, IVue, UTs>>] >>

(* ---------------------- helpers of the repository ---------------------- *)
CssExtensions == {"css", "scss", "sass", "postcss", "pcss", "less", "stylus", "styl"}

\* IS_CSS_RE = /\.(?:css|scss|sass|postcss|pcss|less|stylus|styl)(?:\?[^.]+)?$/
isCSS(file) ==
  \E i \in 1..(Len(file) - 1) :
     /\ file[i] = "."
     /\ file[i + 1] \in CssExtensions
     /\ \/ i + 1 = Len(file)
        \/ /\ i + 3 <= Len(file)
           /\ file[i + 2] = "?"
           /\ \A j \in (i + 3)..Len(file) : file[j] # "."

\* the parameters of the alphabet that give a key a truthy value
TruthyParams(key) ==
  IF key = "macro" THEN {"macro=true"}
  ELSE IF key = "nuxt_component" THEN {"nuxt_component=async"}
  ELSE {}

QueryTruthy(q, key) == \E p \in TruthyParams(key) : QueryHas(q, p)

\* isVue(id) of ../utils, called without a type filter
isVue(id) ==
  IF EndsWith(id, <<".", "vue">>) /\ search(id) = Null THEN TRUE
  ELSE IF search(id) = Null THEN FALSE
  ELSE IF QueryTruthy(search(id), "nuxt_component") THEN FALSE
  ELSE IF QueryTruthy(search(id), "macro") THEN TRUE
  ELSE QueryHas(search(id), "vue")

\* pathe relative(from, to) for absolute paths, from being one level deep
relative(from, to) ==
  IF to = from THEN Null
  ELSE IF StartsWith(to, from \o <<"/">>) THEN SubSeqFrom(to, Len(from) + 2)
  ELSE <<"..">> \o to

\* mutant: the query of the id does not take part in the key
relativeToSrcDir_NoQuery(path) == relative(srcDir, pathname(path))

\* const relativeToSrcDir = (path: string) => relative(options.srcDir, path)
relativeToSrcDir(path) == relative(srcDir, path)

SUPPORTED_FILES == {"vue", "js", "cjs", "mjs", "jsx", "cjsx", "mjsx", "ts", "tsx"}

\* SUPPORTED_FILES_RE = /\.(?:vue|(?:[cm]?j|t)sx?)$/
SUPPORTED_FILES_RE(path) ==
  Len(path) >= 2 /\ path[Len(path) - 1] = "." /\ path[Len(path)] \in SUPPORTED_FILES

Range(s) == {s[i] : i \in 1..Len(s)}

\* mutant: only the components flagged as island are islands
islands_OnlyFlagged == {c \in Range(components) : c.island}

\* the island classifier, computed at construction
islands ==
  {c \in Range(components) :
     \/ c.island
     \/ /\ c.mode = "server"
        /\ ~ \E c2 \in Range(components) :
               c2.pascalName = c.pascalName /\ c2.mode = "client"}

isIsland(id) == \E c \in islands : c.filePath = pathname(id)

(* ------------------------------- state --------------------------------- *)
VARIABLES
  mode,                 \* options.mode of the plugin instance the host is running
  phase,                \* "build" (resolveId, transform), "generate", "done"
  shouldInline,         \* options.shouldInline
  resolvable,           \* the ids the host's resolver can resolve
  clientCSSMap,         \* options.clientCSSMap: id -> insertion-ordered set
  chunksWithInlinedCSS, \* options.chunksWithInlinedCSS
  cssMap,               \* relative path -> [files, inBundle]
  cssMapKeys,           \* the keys of cssMap in insertion order
  idRefMap,             \* relative css path -> chunk reference
  warnCache,            \* per plugin instance: the files already warned about
  warnings,             \* per plugin instance: bag of the warnings issued
  emittedFiles,         \* the files emitted in the server build; a reference is an index
  tr,                   \* server pass: the state of the transform call of each module
  clientOut,            \* client pass: what transform returned for each module
  rendered,             \* the chunks renderChunk has been called for in this pass
  resolveOut,           \* the last call of the resolveId handler and its result
  filenameOut,          \* the last call of the naming helper and what it gave
  renderOut             \* what renderChunk returned for each chunk of this pass

vars == <<mode, phase, shouldInline, resolvable, clientCSSMap, chunksWithInlinedCSS,
          cssMap, cssMapKeys, idRefMap, warnCache, warnings, emittedFiles, tr,
          clientOut, rendered, resolveOut, filenameOut, renderOut>>

(* --------------------------- the host --------------------------------- *)
\* everything the resolver could resolve, and the requests that may fail
AllResolvable == ModuleIds \cup {c \o InlineUsed : c \in CssIds} \cup {BuildCss}

FailCandidates == {GCss, GCss \o InlineUsed}

\* the module a specifier names: a relative one is taken from the importer's
\* directory and names nothing without an importer
ResolveTarget(specifier, importer) ==
  IF specifier = Null THEN Null
  ELSE IF StartsWith(specifier, <<".", "/">>)
       THEN IF importer = Null THEN Null
            ELSE dirname(pathname(importer)) \o SubSeqFrom(specifier, 2)
  ELSE specifier

\* this.resolve(specifier, importer): the resolved id, or Null
Resolve(specifier, importer) ==
  LET target == ResolveTarget(specifier, importer)
  IN  IF target \in resolvable THEN target ELSE Null

\* mutant: ||= replaces an existing set by a new one
Ensure_Reset(map, k) == [x \in DOMAIN map \cup {k} |-> IF x = k THEN << >> ELSE map[x]]

\* a ?? b
Coalesce(a, b) == IF a # Null THEN a ELSE b

\* mutant: a key that has a value keeps it
Put_KeepFirst(f, k, v) == [x \in DOMAIN f \cup {k} |-> IF x \in DOMAIN f THEN f[x] ELSE v]

\* f[k] = v
Put(f, k, v) == [x \in DOMAIN f \cup {k} |-> IF x = k THEN v ELSE f[x]]

\* Set.prototype.add on an insertion-ordered set
SetAdd(set, x) == IF x \in Range(set) THEN set ELSE Append(set, x)

\* map[k] ||= new Set()
Ensure(map, k) == IF k \in DOMAIN map THEN map ELSE Put(map, k, <<>>)

\* mutant: the test for shouldInline === false is left out
InlineDisallowed_NoFalseCase(id) == shouldInline = "function" /\ ~ shouldInlineFn(id)

\* options.shouldInline === false || (typeof options.shouldInline === 'function' && !options.shouldInline(id))
InlineDisallowed(id) ==
  shouldInline = "false" \/ (shouldInline = "function" /\ ~ shouldInlineFn(id))

\* options.shouldInline === true || (typeof options.shouldInline === 'function' && options.shouldInline(id))
InlineRequested(id) ==
  shouldInline = "true" \/ (shouldInline = "function" /\ shouldInlineFn(id))

IdleTransform == [pc |-> "idle", k |-> 0, styleCtr |-> 0, emittedIds |-> {}]

InFlight == {id \in DOMAIN tr : tr[id].pc \in {"graph", "static"}}

Started == {id \in DOMAIN tr : tr[id].pc # "idle"}

Init ==
  /\ mode = "client"
  /\ phase = "build"
  /\ shouldInline \in ShouldInlineValues
  /\ \E failing \in SUBSET FailCandidates :
        /\ Cardinality(failing) <= MaxFailures
        /\ resolvable = AllResolvable \ failing
  /\ clientCSSMap = << >>
  /\ chunksWithInlinedCSS = {}
  /\ cssMap = << >>
  /\ cssMapKeys = << >>
  /\ idRefMap = << >>
  /\ warnCache = [m \in {"client", "server"} |-> {}]
  /\ warnings = [m \in {"client", "server"} |-> EmptyBag]
  /\ emittedFiles = << >>
  /\ tr = [id \in ServerModules |-> IdleTransform]
  /\ clientOut = << >>
  /\ rendered = {}
  /\ resolveOut = << >>
  /\ filenameOut = << >>
  /\ renderOut = << >>

(* --------------------------- resolveId -------------------------------- *)
\* the value the resolveId handler returns: Null for undefined, else the
\* resolved record with its moduleSideEffects flag cleared
resolveIdHandler(id, importer) ==
  IF InlineDisallowed(importer) THEN Null
  ELSE IF id = BuildCss \/ EndsWith(id, <<".", "vue">>) \/ isCSS(id)
       THEN LET res == Resolve(id, importer)
            IN  IF res # Null THEN [id |-> res, moduleSideEffects |-> FALSE] ELSE Null
  ELSE Null

ResolveId(id, importer) ==
  /\ phase = "build"
  /\ resolveOut' = [id |-> id, importer |-> importer, result |-> resolveIdHandler(id, importer)]
  /\ UNCHANGED <<mode, phase, shouldInline, resolvable, clientCSSMap, chunksWithInlinedCSS,
                 cssMap, cssMapKeys, idRefMap, warnCache, warnings, emittedFiles, tr,
                 clientOut, rendered, filenameOut, renderOut>>

(* ----------------------- transform, client pass ------------------------ *)
\* the modules the client build transforms
ClientModules == {EntryId, AVue}

\* mutant: the warnCache test is left out
Warn_EveryTime(st, key, subject) ==
  [st EXCEPT !.cache = @ \cup {key},
             !.warns = @ (+) SetToBag({[key |-> key, subject |-> subject]})]

\* mutant: the warnCache test is inverted
Warn_Inverted(st, key, subject) ==
  IF key \notin st.cache THEN [st EXCEPT !.cache = @ \cup {key}]
  ELSE [st EXCEPT !.warns = @ (+) SetToBag({[key |-> key, subject |-> subject]})]

\* if (!warnCache.has(file)) { warnCache.add(file); this.warn(...) }
Warn(st, key, subject) ==
  IF key \in st.cache THEN st
  ELSE [st EXCEPT !.cache = @ \cup {key},
                  !.warns = @ (+) SetToBag({[key |-> key, subject |-> subject]})]

\* mutant: a file that cannot be resolved is prepended and recorded all the same
RECURSIVE GlobalCSSLoop_RecordAnyway(_, _, _)
GlobalCSSLoop_RecordAnyway(id, i, st) ==
  IF i > Len(globalCSS) THEN st
  ELSE LET file     == globalCSS[i]
           resolved == Coalesce(Resolve(file, Null), Resolve(file, id))
           res      == Coalesce(Resolve(file \o InlineUsed, Null), Resolve(file \o InlineUsed, id))
       IN  IF resolved = Null \/ res = Null
           THEN GlobalCSSLoop_RecordAnyway(id, i + 1,
                  [Warn(st, file, file) EXCEPT !.prepended = <<file>> \o @,
                                               !.set = SetAdd(@, file)])
           ELSE GlobalCSSLoop_RecordAnyway(id, i + 1, [st EXCEPT !.set = SetAdd(@, resolved)])

\* the loop over options.globalCSS, from its i-th file on
RECURSIVE GlobalCSSLoop(_, _, _)
GlobalCSSLoop(id, i, st) ==
  IF i > Len(globalCSS) THEN st
  ELSE LET file     == globalCSS[i]
           resolved == Coalesce(Resolve(file, Null), Resolve(file, id))
           res      == Coalesce(Resolve(file \o InlineUsed, Null), Resolve(file \o InlineUsed, id))
       IN  IF resolved = Null \/ res = Null
           THEN GlobalCSSLoop(id, i + 1,
                  [Warn(st, file, file) EXCEPT !.prepended = <<file>> \o @])
           ELSE GlobalCSSLoop(id, i + 1, [st EXCEPT !.set = SetAdd(@, resolved)])

TransformClient(id) ==
  /\ mode = "client"
  /\ phase = "build"
  /\ id \in ClientModules \ DOMAIN clientOut
  /\ IF id = entry /\ InlineRequested(id)
     THEN LET map == Ensure(clientCSSMap, id)
              st  == GlobalCSSLoop(id, 1,
                       [set |-> map[id], cache |-> warnCache["client"],
                        warns |-> warnings["client"], prepended |-> << >>])
          IN  /\ clientCSSMap' = [map EXCEPT ![id] = st.set]
              /\ warnCache' = [warnCache EXCEPT !["client"] = st.cache]
              /\ warnings' = [warnings EXCEPT !["client"] = st.warns]
              /\ clientOut' = Put(clientOut, id, st.prepended)
     ELSE /\ clientOut' = Put(clientOut, id, << >>)
          /\ UNCHANGED <<clientCSSMap, warnCache, warnings>>
  /\ UNCHANGED <<mode, phase, shouldInline, resolvable, chunksWithInlinedCSS, cssMap,
                 cssMapKeys, idRefMap, emittedFiles, tr, rendered, resolveOut, filenameOut,
                 renderOut>>

(* ----------------------------- renderChunk ----------------------------- *)
\* [chunk.facadeModuleId, ...chunk.moduleIds].filter(Boolean)
ChunkModules(chunk) == SelectSeq(<<chunk.facadeModuleId>> \o chunk.moduleIds, LAMBDA m : m # Null)

\* mutant: only a stylesheet module gets its own key in the graph
WalkClient_OnlyCSS(map, chunk, isEntry, moduleId) ==
  IF ~ isCSS(moduleId) THEN map
  ELSE IF isEntry /\ chunk.facadeModuleId # Null
       THEN [Ensure(Ensure(map, moduleId), chunk.facadeModuleId) EXCEPT
               ![chunk.facadeModuleId] = SetAdd(@, moduleId)]
       ELSE Ensure(map, moduleId)

\* mutant: a component's style module is recorded under its own id only
WalkClient_NoParent(map, chunk, isEntry, moduleId) ==
  LET m1 == Ensure(map, moduleId)
  IN  IF ~ isCSS(moduleId) THEN m1
      ELSE LET m2 == IF isVue(moduleId)
                     THEN [m1 EXCEPT ![moduleId] = SetAdd(@, moduleId)]
                     ELSE m1
           IN  IF isEntry /\ chunk.facadeModuleId # Null
               THEN [Ensure(m2, chunk.facadeModuleId) EXCEPT
                       ![chunk.facadeModuleId] = SetAdd(@, moduleId)]
               ELSE m2

\* mutant: a stylesheet is recorded under the entry module whatever chunk it is in
WalkClient_AlwaysUnderEntry(map, chunk, isEntry, moduleId) ==
  LET m1 == Ensure(map, moduleId)
  IN  IF ~ isCSS(moduleId) THEN m1
      ELSE LET m2 == IF isVue(moduleId)
                     THEN LET own    == [m1 EXCEPT ![moduleId] = SetAdd(@, moduleId)]
                              parent == StripQuery(moduleId)
                              own2   == Ensure(own, parent)
                          IN  [own2 EXCEPT ![parent] = SetAdd(@, moduleId)]
                     ELSE m1
           IN  [Ensure(m2, entry) EXCEPT ![entry] = SetAdd(@, moduleId)]

\* the body of the loop in client mode, for one module id
WalkClient(map, chunk, isEntry, moduleId) ==
  LET m1 == Ensure(map, moduleId)
  IN  IF ~ isCSS(moduleId) THEN m1
      ELSE LET m2 == IF isVue(moduleId)
                     THEN LET own    == [m1 EXCEPT ![moduleId] = SetAdd(@, moduleId)]
                              parent == StripQuery(moduleId)
                              own2   == Ensure(own, parent)
                          IN  [own2 EXCEPT ![parent] = SetAdd(@, moduleId)]
                     ELSE m1
           IN  IF isEntry /\ chunk.facadeModuleId # Null
               THEN [Ensure(m2, chunk.facadeModuleId) EXCEPT
                       ![chunk.facadeModuleId] = SetAdd(@, moduleId)]
               ELSE m2

\* mutant: inBundle is derived anew for every chunk
WalkServer_Rederive(map, isEntry, moduleId) ==
  LET relativePath == relativeToSrcDir(moduleId)
  IN  IF relativePath \in DOMAIN map
      THEN [map EXCEPT ![relativePath].inBundle =
              IF (isVue(moduleId) /\ relativeToSrcDir(moduleId) # Null) \/ isEntry
              THEN "true" ELSE "false"]
      ELSE map

\* the body of the loop in server mode, for one module id
WalkServer(map, isEntry, moduleId) ==
  LET relativePath == relativeToSrcDir(moduleId)
  IN  IF relativePath \in DOMAIN map
      THEN [map EXCEPT ![relativePath].inBundle =
              IF @ # "undefined" THEN @
              ELSE IF (isVue(moduleId) /\ relativeToSrcDir(moduleId) # Null) \/ isEntry
                   THEN "true" ELSE "false"]
      ELSE map

RECURSIVE WalkClientFrom(_, _, _, _, _)
WalkClientFrom(map, chunk, isEntry, mods, i) ==
  IF i > Len(mods) THEN map
  ELSE WalkClientFrom(WalkClient(map, chunk, isEntry, mods[i]), chunk, isEntry, mods, i + 1)

RECURSIVE WalkServerFrom(_, _, _, _)
WalkServerFrom(map, isEntry, mods, i) ==
  IF i > Len(mods) THEN map
  ELSE WalkServerFrom(WalkServer(map, isEntry, mods[i]), isEntry, mods, i + 1)

\* line 145: the value renderChunk returns, null for "leave the chunk's code as it is"
renderChunkResult(chunk) == [code |-> Null, raised |-> FALSE]

RenderChunk(c) ==
  /\ phase = "generate"
  /\ c \in (1..Len(Chunks)) \ rendered
  /\ LET chunk   == Chunks[c]
         isEntry == chunk.facadeModuleId = entry
         graph   == IF isEntry THEN Ensure(clientCSSMap, chunk.facadeModuleId) ELSE clientCSSMap
     IN  IF mode = "client"
         THEN /\ clientCSSMap' = WalkClientFrom(graph, chunk, isEntry, ChunkModules(chunk), 1)
              /\ UNCHANGED cssMap
         ELSE /\ clientCSSMap' = graph
              /\ cssMap' = WalkServerFrom(cssMap, isEntry, ChunkModules(chunk), 1)
  /\ rendered' = rendered \cup {c}
  /\ renderOut' = [x \in DOMAIN renderOut \cup {c} |->
                     IF x = c THEN renderChunkResult(Chunks[c]) ELSE renderOut[x]]
  /\ UNCHANGED <<mode, phase, shouldInline, resolvable, chunksWithInlinedCSS, cssMapKeys,
                 idRefMap, warnCache, warnings, emittedFiles, tr, clientOut, resolveOut,
                 filenameOut>>

(* ----------------------- transform, server pass ------------------------ *)
\* options.clientCSSMap[id] || []
GraphFiles(id) == IF id \in DOMAIN clientCSSMap THEN clientCSSMap[id] ELSE << >>

\* mutant: the query test of line 184 is left out
TransformProceeds_NoQueryTest(id) ==
  /\ id \in DOMAIN clientCSSMap \/ isIsland(id)
  /\ isIsland(id) \/ ~ InlineDisallowed(id)

\* whether transform gets past its early returns (lines 181-188)
TransformProceeds(id) ==
  /\ id \in DOMAIN clientCSSMap \/ isIsland(id)
  /\ ~ (QueryTruthy(search(id), "macro") \/ QueryTruthy(search(id), "nuxt_component"))
  /\ isIsland(id) \/ ~ InlineDisallowed(id)

\* where transform continues once the loop over the graph's files is over
AfterGraph(id) ==
  IF SUPPORTED_FILES_RE(pathname(id)) /\ Len(Code(id)) > 0 THEN "static" ELSE "done"

\* mutant: the counter is left out of the name of a style chunk
StyleChunk_NoCounter(id, ctr, cssId) ==
  [type |-> "chunk", name |-> [base |-> filename(id), ctr |-> 1], fileName |-> Null,
   id |-> cssId \o InlineUsed, source |-> Null]

\* this.emitFile({ type: 'chunk', name: `${filename(id)}-styles-${++styleCtr}.mjs`, id: ... })
StyleChunk(id, ctr, cssId) ==
  [type |-> "chunk", name |-> [base |-> filename(id), ctr |-> ctr], fileName |-> Null,
   id |-> cssId \o InlineUsed, source |-> Null]

\* mutant: a new record counts as part of the bundle from the start
NewStyleRecord_InBundle == [files |-> << >>, inBundle |-> "true"]

\* cssMap[relativeId] ||= { files: [] }
NewStyleRecord == [files |-> << >>, inBundle |-> "undefined"]

\* lines 179-196: the synchronous start of transform, up to the first await
TransformStart(id) ==
  /\ mode = "server"
  /\ phase = "build"
  /\ tr[id].pc = "idle"
  /\ Cardinality(Started) < MaxTransforms
  /\ IF ~ TransformProceeds(id)
     THEN /\ tr' = [tr EXCEPT ![id].pc = "done"]
          /\ UNCHANGED <<cssMap, cssMapKeys>>
     ELSE LET relativeId == relativeToSrcDir(id)
              next       == IF Len(GraphFiles(id)) > 0 THEN "graph" ELSE AfterGraph(id)
          IN  /\ tr' = [tr EXCEPT ![id] = [pc |-> next, k |-> 1, styleCtr |-> 0, emittedIds |-> {}]]
              /\ IF relativeId \in DOMAIN cssMap
                 THEN UNCHANGED <<cssMap, cssMapKeys>>
                 ELSE /\ cssMap' = Put(cssMap, relativeId, NewStyleRecord)
                      /\ cssMapKeys' = Append(cssMapKeys, relativeId)
  /\ UNCHANGED <<mode, phase, shouldInline, resolvable, clientCSSMap, chunksWithInlinedCSS,
                 idRefMap, warnCache, warnings, emittedFiles, clientOut, rendered, resolveOut,
                 filenameOut, renderOut>>

\* lines 197-216: one iteration of the loop over the graph's files
TransformGraphStep(id) ==
  /\ tr[id].pc = "graph"
  /\ LET t        == tr[id]
         file     == GraphFiles(id)[t.k]
         resolved == Coalesce(Resolve(file, Null), Resolve(file, id))
         res      == Coalesce(Resolve(file \o InlineUsed, Null), Resolve(file \o InlineUsed, id))
         nextpc   == IF t.k = Len(GraphFiles(id)) THEN AfterGraph(id) ELSE "graph"
         nextk    == IF t.k = Len(GraphFiles(id)) THEN 1 ELSE t.k + 1
         st       == Warn([cache |-> warnCache["server"], warns |-> warnings["server"]], file, file)
     IN  IF resolved = Null \/ res = Null
         THEN /\ warnCache' = [warnCache EXCEPT !["server"] = st.cache]
              /\ warnings' = [warnings EXCEPT !["server"] = st.warns]
              /\ tr' = [tr EXCEPT ![id].pc = nextpc, ![id].k = nextk]
              /\ UNCHANGED <<emittedFiles, idRefMap, cssMap>>
         ELSE IF file \in t.emittedIds
         THEN /\ tr' = [tr EXCEPT ![id].pc = nextpc, ![id].k = nextk]
              /\ UNCHANGED <<warnCache, warnings, emittedFiles, idRefMap, cssMap>>
         ELSE LET ref == Len(emittedFiles) + 1
              IN  /\ emittedFiles' = Append(emittedFiles, StyleChunk(id, t.styleCtr + 1, file))
                  /\ idRefMap' = Put(idRefMap, relativeToSrcDir(file), ref)
                  /\ cssMap' = [cssMap EXCEPT ![relativeToSrcDir(id)].files = Append(@, ref)]
                  /\ tr' = [tr EXCEPT ![id].pc = nextpc, ![id].k = nextk,
                                       ![id].styleCtr = t.styleCtr + 1]
                  /\ UNCHANGED <<warnCache, warnings>>
  /\ UNCHANGED <<mode, phase, shouldInline, resolvable, clientCSSMap, chunksWithInlinedCSS,
                 cssMapKeys, clientOut, rendered, resolveOut, filenameOut, renderOut>>

\* whether a static import is a style import (lines 221-222)
IsStyleImport(specifier) ==
  QueryHas(specifier, "type=style") \/ EndsWith(specifier, <<".", "css">>)

\* lines 220-243: one iteration of the loop over the static imports
TransformStaticStep(id) ==
  /\ tr[id].pc = "static"
  /\ LET t         == tr[id]
         specifier == Code(id)[t.k]
         resolved  == Resolve(specifier, id)
         nextpc    == IF t.k = Len(Code(id)) THEN "done" ELSE "static"
         nextk     == IF t.k = Len(Code(id)) THEN 1 ELSE t.k + 1
         st        == Warn([cache |-> warnCache["server"], warns |-> warnings["server"]],
                           resolved, specifier)
     IN  IF ~ IsStyleImport(specifier) \/ resolved = Null
         THEN /\ tr' = [tr EXCEPT ![id].pc = nextpc, ![id].k = nextk]
              /\ UNCHANGED <<warnCache, warnings, emittedFiles, idRefMap, cssMap>>
         ELSE IF Resolve(resolved \o InlineUsed, Null) = Null
         THEN /\ warnCache' = [warnCache EXCEPT !["server"] = st.cache]
              /\ warnings' = [warnings EXCEPT !["server"] = st.warns]
              /\ tr' = [tr EXCEPT ![id].pc = nextpc, ![id].k = nextk]
              /\ UNCHANGED <<emittedFiles, idRefMap, cssMap>>
         ELSE IF resolved \in t.emittedIds
         THEN /\ tr' = [tr EXCEPT ![id].pc = nextpc, ![id].k = nextk]
              /\ UNCHANGED <<warnCache, warnings, emittedFiles, idRefMap, cssMap>>
         ELSE LET ref == Len(emittedFiles) + 1
              IN  /\ emittedFiles' = Append(emittedFiles, StyleChunk(id, t.styleCtr + 1, resolved))
                  /\ idRefMap' = Put(idRefMap, relativeToSrcDir(resolved), ref)
                  /\ cssMap' = [cssMap EXCEPT ![relativeToSrcDir(id)].files = Append(@, ref)]
                  /\ tr' = [tr EXCEPT ![id].pc = nextpc, ![id].k = nextk,
                                       ![id].styleCtr = t.styleCtr + 1]
                  /\ UNCHANGED <<warnCache, warnings>>
  /\ UNCHANGED <<mode, phase, shouldInline, resolvable, clientCSSMap, chunksWithInlinedCSS,
                 cssMapKeys, clientOut, rendered, resolveOut, filenameOut, renderOut>>

(* ---------------------------- generateBundle --------------------------- *)
\* mutant: the aggregate lists the style chunks last to first
Aggregate_Reversed(file, files) ==
  [type |-> "asset", name |-> [base |-> filename(file), ctr |-> 0], fileName |-> Null,
   id |-> Null,
   source |-> [imports |-> [i \in 1..Len(files) |-> files[Len(files) + 1 - i]],
               exports |-> [i \in 1..Len(files) |-> i]]]

\* this.emitFile({ type: 'asset', name: `${fileName}-styles.mjs`, source: ... }):
\* the aggregate imports files[i] as style_i and exports [style_0, ...]
Aggregate(file, files) ==
  [type |-> "asset", name |-> [base |-> filename(file), ctr |-> 0], fileName |-> Null,
   id |-> Null,
   source |-> [imports |-> files, exports |-> [i \in 1..Len(files) |-> i]]]

\* mutant: the files.length test of line 67 is left out
Qualifies_IgnoreFiles(rec) == rec.inBundle = "true"

\* mutant: the inBundle test of line 67 is left out
Qualifies_IgnoreInBundle(rec) == Len(rec.files) # 0

\* line 67, negated: the record has styles and its module is in the bundle
Qualifies(rec) == Len(rec.files) # 0 /\ rec.inBundle = "true"

\* the loop over Object.entries(cssMap), from its i-th key on;
\* st.emitted maps a key to the reference of its aggregate
RECURSIVE EmitAggregates(_, _)
EmitAggregates(i, st) ==
  IF i > Len(cssMapKeys) THEN st
  ELSE LET file == cssMapKeys[i]
           rec  == cssMap[file]
       IN  IF ~ Qualifies(rec)
           THEN EmitAggregates(i + 1, st)
           ELSE EmitAggregates(i + 1,
                  [emitted |-> Put(st.emitted, file, Len(st.out) + 1),
                   out     |-> Append(st.out, Aggregate(file, rec.files))])

\* mutant: the directory lists every style record, by its position
Directory_AllRecords(emitted) ==
  [type |-> "asset", name |-> [base |-> Null, ctr |-> 0],
   fileName |-> <<"styles", ".", "mjs">>, id |-> Null,
   source |-> [k \in DOMAIN cssMap |-> IF k \in DOMAIN emitted THEN emitted[k] ELSE 0]]

\* this.emitFile({ type: 'asset', fileName: 'styles.mjs', source: ... })
Directory(emitted) ==
  [type |-> "asset", name |-> [base |-> Null, ctr |-> 0],
   fileName |-> <<"styles", ".", "mjs">>, id |-> Null, source |-> emitted]

\* mutant: the mode test of line 62 is left out
GenerateBundle_NoModeTest ==
  /\ phase = "generate"
  /\ phase' = "done"
  /\ LET st == EmitAggregates(1, [emitted |-> << >>, out |-> emittedFiles])
     IN  /\ chunksWithInlinedCSS' = chunksWithInlinedCSS \cup DOMAIN st.emitted
         /\ emittedFiles' = Append(st.out, Directory(st.emitted))
  /\ UNCHANGED <<mode, shouldInline, resolvable, clientCSSMap, cssMap, cssMapKeys, idRefMap,
                 warnCache, warnings, tr, clientOut, rendered, resolveOut, filenameOut,
                 renderOut>>

\* mutant: every style record is tracked, emitted or not
GenerateBundle_TracksAllRecords ==
  /\ phase = "generate"
  /\ phase' = "done"
  /\ IF mode = "client"
     THEN UNCHANGED <<emittedFiles, chunksWithInlinedCSS>>
     ELSE LET st == EmitAggregates(1, [emitted |-> << >>, out |-> emittedFiles])
          IN  /\ chunksWithInlinedCSS' = chunksWithInlinedCSS \cup DOMAIN cssMap
              /\ emittedFiles' = Append(st.out, Directory(st.emitted))
  /\ UNCHANGED <<mode, shouldInline, resolvable, clientCSSMap, cssMap, cssMapKeys, idRefMap,
                 warnCache, warnings, tr, clientOut, rendered, resolveOut, filenameOut,
                 renderOut>>

GenerateBundle ==
  /\ phase = "generate"
  /\ phase' = "done"
  /\ IF mode = "client"
     THEN UNCHANGED <<emittedFiles, chunksWithInlinedCSS>>
     ELSE LET st == EmitAggregates(1, [emitted |-> << >>, out |-> emittedFiles])
          IN  /\ chunksWithInlinedCSS' = chunksWithInlinedCSS \cup DOMAIN st.emitted
              /\ emittedFiles' = Append(st.out, Directory(st.emitted))
  /\ UNCHANGED <<mode, shouldInline, resolvable, clientCSSMap, cssMap, cssMapKeys, idRefMap,
                 warnCache, warnings, tr, clientOut, rendered, resolveOut, filenameOut,
                 renderOut>>

(* ------------------------- the host's pipeline ------------------------- *)
\* the build phase of a pass ends when no transform is pending
EndBuild ==
  /\ phase = "build"
  /\ InFlight = {}
  /\ phase' = "generate"
  /\ UNCHANGED <<mode, shouldInline, resolvable, clientCSSMap, chunksWithInlinedCSS, cssMap,
                 cssMapKeys, idRefMap, warnCache, warnings, emittedFiles, tr, clientOut,
                 rendered, resolveOut, filenameOut, renderOut>>

\* the server build starts when the client build is over; what the client
\* build's hooks returned went into the client bundle and is gone with it
StartServerPass ==
  /\ mode = "client"
  /\ phase = "done"
  /\ mode' = "server"
  /\ phase' = "build"
  /\ rendered' = {}
  /\ clientOut' = << >>
  /\ renderOut' = << >>
  /\ UNCHANGED <<shouldInline, resolvable, clientCSSMap, chunksWithInlinedCSS, cssMap,
                 cssMapKeys, idRefMap, warnCache, warnings, emittedFiles, tr, resolveOut,
                 filenameOut>>

Next ==
  \/ \E id \in ModuleIds : TransformClient(id)
  \/ \E id \in ServerModules : TransformStart(id)
  \/ \E id \in ServerModules : TransformGraphStep(id)
  \/ \E id \in ServerModules : TransformStaticStep(id)
  \/ \E c \in 1..Len(Chunks) : RenderChunk(c)
  \/ GenerateBundle
  \/ EndBuild
  \/ StartServerPass

Spec == Init /\ [][Next]_vars

\* the resolution guard on its own: it reads the options and writes nothing
NextResolve ==
  \E id \in ModuleIds \cup {BuildCss}, importer \in {Null, EntryId, AVue} : ResolveId(id, importer)

SpecResolve == Init /\ [][NextResolve]_vars

(* --------------------------- the naming helper ------------------------- *)
\* the identifiers the naming helper is tried on: every token sequence of at
\* most MaxNameLen tokens over the separators and two words
NameTokens == {"/", ".", "?", "a", "vue"}

NameIds == UNION {[1..n -> NameTokens] : n \in 0..MaxNameLen}

\* filename(filename(name)): the helper applied to its own result; a result
\* of undefined makes the second call raise (undefined has no replace)
filenameTwice(name) ==
  IF filename(name) = Null THEN [threw |-> TRUE, value |-> Null]
  ELSE [threw |-> FALSE, value |-> filename(filename(name))]

\* one call of the helper, and a second call on what the first gave
FilenameCall(name) ==
  /\ filenameOut = << >>
  /\ filenameOut' = [name |-> name, result |-> filename(name), again |-> filenameTwice(name)]
  /\ UNCHANGED <<mode, phase, shouldInline, resolvable, clientCSSMap, chunksWithInlinedCSS,
                 cssMap, cssMapKeys, idRefMap, warnCache, warnings, emittedFiles, tr,
                 clientOut, rendered, resolveOut, renderOut>>

NextFilename == \E name \in NameIds : FilenameCall(name)

\* the helper reads no option: one configuration is enough
InitFilename == Init /\ shouldInline = "true" /\ resolvable = AllResolvable

SpecFilename == InitFilename /\ [][NextFilename]_vars

(* ------------------- what the build has produced ----------------------- *)
\* the server build's generateBundle has run
BundleDone == mode = "server" /\ phase = "done"

\* the mapping exported by styles.mjs (the last file generateBundle emits)
StylesDirectory == emittedFiles[Len(emittedFiles)].source

\* the references of the aggregate modules among the emitted files
AggregateRefs ==
  {r \in 1..Len(emittedFiles) :
     emittedFiles[r].type = "asset" /\ emittedFiles[r].fileName = Null}

\* the stylesheet a style chunk was emitted for
CssOf(ref) == SubSeq(emittedFiles[ref].id, 1, Len(emittedFiles[ref].id) - Len(InlineUsed))

\* the stylesheets recorded for a key of cssMap, in recording order
StyleIds(key) == [i \in 1..Len(cssMap[key].files) |-> CssOf(cssMap[key].files[i])]

\* the modules the server pass's renderChunk has walked
ServerWalked ==
  IF mode = "server" THEN UNION {Range(ChunkModules(Chunks[c])) : c \in rendered} ELSE {}

\* the graph's files of M for which both resolutions succeed, in the graph's order
GraphResolved(M) ==
  SelectSeq(GraphFiles(M), LAMBDA f :
     /\ Coalesce(Resolve(f, Null), Resolve(f, M)) # Null
     /\ Coalesce(Resolve(f \o InlineUsed, Null), Resolve(f \o InlineUsed, M)) # Null)

\* the static style imports of M that the scan reaches and that resolve in
\* both forms, as resolved ids in scan order
StaticResolved(M) ==
  IF ~ SUPPORTED_FILES_RE(pathname(M)) THEN << >>
  ELSE LET resolved == [i \in 1..Len(Code(M)) |-> Resolve(Code(M)[i], M)]
           kept == SelectSeq([i \in 1..Len(Code(M)) |-> i], LAMBDA i :
                     /\ IsStyleImport(Code(M)[i])
                     /\ resolved[i] # Null
                     /\ Resolve(resolved[i] \o InlineUsed, Null) # Null)
       IN  [j \in 1..Len(kept) |-> resolved[kept[j]]]

NoDuplicates(s) == \A i, j \in 1..Len(s) : s[i] = s[j] => i = j

\* s without the later occurrences of its elements
FirstOccurrences(s) ==
  LET keep == {i \in 1..Len(s) : \A j \in 1..(i - 1) : s[j] # s[i]}
      F[n \in 0..Len(s)] ==
        IF n = 0 THEN << >>
        ELSE IF n \in keep THEN Append(F[n - 1], s[n]) ELSE F[n - 1]
  IN  F[Len(s)]

Recorded(M) == relativeToSrcDir(M) \in DOMAIN cssMap

(* ------------------------------ claims --------------------------------- *)

\* C1: the style chunks recorded for a consuming module are in first-discovery
\* order (the graph's files first, then the static imports, each in iteration
\* order) and no stylesheet is recorded twice for the module, also when it is
\* both in the graph and statically imported, or imported twice.
C1_FirstDiscoveryNoDuplicates ==
  \A M \in ServerModules :
     Recorded(M) =>
       /\ NoDuplicates(StyleIds(relativeToSrcDir(M)))
       /\ tr[M].pc = "done" =>
            StyleIds(relativeToSrcDir(M)) =
              FirstOccurrences(GraphResolved(M) \o StaticResolved(M))

\* C2: after the server pass's generateBundle every key of styles.mjs is a
\* style record with inBundle true and a non-empty files list; a record
\* failing either condition has no directory entry and no aggregate module
\* (every aggregate belongs to exactly one directory key), and generateBundle
\* issues no warning.
C2_DirectoryState ==
  BundleDone =>
    /\ \A key \in DOMAIN StylesDirectory :
          /\ key \in DOMAIN cssMap
          /\ cssMap[key].inBundle = "true"
          /\ Len(cssMap[key].files) > 0
          /\ StylesDirectory[key] \in AggregateRefs
          /\ emittedFiles[StylesDirectory[key]].source.imports = cssMap[key].files
    /\ \A key \in DOMAIN cssMap :
          (cssMap[key].inBundle # "true" \/ Len(cssMap[key].files) = 0) =>
             key \notin DOMAIN StylesDirectory
    /\ \A r \in AggregateRefs :
          Cardinality({key \in DOMAIN StylesDirectory : StylesDirectory[key] = r}) = 1

C2_OnlyQualifyingRecordsEmitted ==
  /\ []C2_DirectoryState
  /\ [][(phase = "generate" /\ phase' = "done") => warnings' = warnings]_vars

\* a server bundle in which one record qualified and another did not
C2_Witness ==
  /\ BundleDone
  /\ DOMAIN StylesDirectory # {}
  /\ \E key \in DOMAIN cssMap : key \notin DOMAIN StylesDirectory

\* C3: a module that is a key of the graph and was transformed in the server
\* pass, but which no chunk walked by the server pass's renderChunk contains,
\* gets no aggregate, no directory entry and is not in chunksWithInlinedCSS.
C3_TreeShakenModuleOmitted ==
  BundleDone =>
    \A M \in ServerModules :
       (M \in DOMAIN clientCSSMap /\ tr[M].pc = "done" /\ M \notin ServerWalked) =>
          /\ relativeToSrcDir(M) \notin DOMAIN StylesDirectory
          /\ relativeToSrcDir(M) \notin chunksWithInlinedCSS
          /\ M \notin chunksWithInlinedCSS
          /\ \A r \in AggregateRefs :
                Recorded(M) => emittedFiles[r].source.imports # cssMap[relativeToSrcDir(M)].files

\* a transformed graph module with recorded styles that no server chunk contained
C3_Witness ==
  /\ BundleDone
  /\ \E M \in ServerModules :
        /\ M \in DOMAIN clientCSSMap /\ tr[M].pc = "done" /\ M \notin ServerWalked
        /\ Recorded(M) /\ Len(cssMap[relativeToSrcDir(M)].files) > 0

\* C4: a server component without a client component of the same pascalName,
\* or a component flagged as island, has its file processed by the server
\* pass's transform whatever shouldInline says and whether or not the file is
\* a key of the graph: the style record exists and every style import of the
\* file that resolves in both forms has a chunk in the record.
C4_IslandsAlwaysProcessed ==
  \A i \in 1..Len(components) :
     LET c == components[i]
         M == c.filePath
     IN  (\/ c.island
          \/ /\ c.mode = "server"
             /\ \A j \in 1..Len(components) :
                   ~ (components[j].pascalName = c.pascalName /\ components[j].mode = "client"))
         => ((M \in ServerModules /\ tr[M].pc = "done") =>
               /\ Recorded(M)
               /\ LET recorded == Range(StyleIds(relativeToSrcDir(M)))
                  IN  \A f \in Range(StaticResolved(M)) : f \in recorded)

\* the island i.vue was transformed with inlining switched off and without
\* being a key of the graph, and a style chunk was recorded for it
C4_Witness ==
  /\ shouldInline = "false"
  /\ tr[IVue].pc = "done"
  /\ IVue \notin DOMAIN clientCSSMap
  /\ Recorded(IVue)
  /\ Len(cssMap[relativeToSrcDir(IVue)].files) > 0

(* ---------------------- warnings and references ------------------------ *)
\* the number of warnings a plugin instance has issued about a file
WarnCount(m, f) ==
  BagCardinality([w \in {x \in BagToSet(warnings[m]) : x.key = f} |-> CopiesIn(w, warnings[m])])

WarnedFiles(m) == {w.key : w \in BagToSet(warnings[m])}

\* the transform of M has run to its end and got past its early returns
Processed(M) == tr[M].pc = "done" /\ Recorded(M)

\* the static imports of M that the scan of lines 218-222 takes for styles
StaticStyleImports(M) ==
  IF SUPPORTED_FILES_RE(pathname(M))
  THEN {sp \in Range(Code(M)) : IsStyleImport(sp)}
  ELSE {}

\* the static style imports of M that resolve, but not for inlining
StaticInlineFailures(M) ==
  LET resolved == [sp \in StaticStyleImports(M) |-> Resolve(sp, M)]
  IN  {resolved[sp] : sp \in {x \in DOMAIN resolved :
                                /\ resolved[x] # Null
                                /\ Resolve(resolved[x] \o InlineUsed, Null) = Null}}

\* the raw identifiers M's transform asks the resolver for and fails to
\* resolve in one form or the other
FailedRaw(M) ==
  LET ok == Range(GraphResolved(M))
  IN  {f \in Range(GraphFiles(M)) : f \notin ok}
      \cup {sp \in StaticStyleImports(M) :
              LET resolved == Resolve(sp, M)
              IN  resolved = Null \/ Resolve(resolved \o InlineUsed, Null) = Null}

\* the files of M whose failure reaches a warning: a file of the graph that
\* fails either resolution, a static import that resolves but not for inlining
WarnedFailures(M) ==
  LET ok == Range(GraphResolved(M))
  IN  {f \in Range(GraphFiles(M)) : f \notin ok} \cup StaticInlineFailures(M)

\* the files of M that resolve but not in their inline-and-mark-used form
InlineFailures(M) ==
  {f \in Range(GraphFiles(M)) :
     Coalesce(Resolve(f \o InlineUsed, Null), Resolve(f \o InlineUsed, M)) = Null}
  \cup StaticInlineFailures(M)

C6_FailureSkipsOnlyThatFile ==
  \A M \in ServerModules :
     Processed(M) =>
       LET recorded == Range(StyleIds(relativeToSrcDir(M)))
       IN  /\ \A f \in InlineFailures(M) :
                 WarnCount("server", f) = 1 /\ f \notin recorded
           /\ \A f \in Range(GraphResolved(M) \o StaticResolved(M)) : f \in recorded

\* a processed module with one file that failed and another that was recorded
C6_Witness ==
  \E M \in ServerModules :
     /\ Processed(M)
     /\ InlineFailures(M) # {}
     /\ Len(cssMap[relativeToSrcDir(M)].files) > 0

\* the premises of C7 for M: the client pass recorded files for it, the
\* server pass's transform resolved them all, renderChunk saw it in the bundle
C7_Premises(M) ==
  /\ M \in DOMAIN clientCSSMap
  /\ Len(GraphFiles(M)) > 0
  /\ Processed(M)
  /\ GraphResolved(M) = GraphFiles(M)
  /\ cssMap[relativeToSrcDir(M)].inBundle = "true"

\* C7 (as claimed): under these premises generateBundle emits an aggregate
\* for M importing exactly the n chunks of the graph's files, in the graph's
\* order, and styles.mjs has an entry for M that loads it.
C7_AggregateIsExactlyTheGraph ==
  BundleDone =>
    \A M \in ServerModules :
       C7_Premises(M) =>
          /\ relativeToSrcDir(M) \in DOMAIN StylesDirectory
          /\ LET imports == emittedFiles[StylesDirectory[relativeToSrcDir(M)]].source.imports
             IN  [i \in 1..Len(imports) |-> CssOf(imports[i])] = GraphFiles(M)

\* C7 (amended): under these premises generateBundle emits an aggregate for M
\* that imports the n chunks of the graph's files first, in the graph's order,
\* followed by one chunk per static style import of M that resolves, in scan
\* order (so exactly n when M has none), and styles.mjs has an entry for M
\* that loads it.
C7_AggregateIsGraphThenStatic ==
  BundleDone =>
    \A M \in ServerModules :
       C7_Premises(M) =>
          /\ relativeToSrcDir(M) \in DOMAIN StylesDirectory
          /\ StylesDirectory[relativeToSrcDir(M)] \in AggregateRefs
          /\ LET imports == emittedFiles[StylesDirectory[relativeToSrcDir(M)]].source.imports
             IN  /\ [i \in 1..Len(imports) |-> CssOf(imports[i])]
                      = GraphFiles(M) \o StaticResolved(M)
                 /\ imports = cssMap[relativeToSrcDir(M)].files

\* the premises hold for a module with two files in the graph
C7_Witness ==
  /\ BundleDone
  /\ \E M \in ServerModules : C7_Premises(M) /\ Len(GraphFiles(M)) >= 2

(* ------------------------ the generated loaders ------------------------ *)
\* what importing an aggregate module yields: its default export is the list
\* of the default exports of the style chunks, each named here by its stylesheet
ImportAggregate(ref) ==
  LET src == emittedFiles[ref].source
  IN  [default |-> [j \in 1..Len(src.exports) |-> CssOf(src.imports[src.exports[j]])]]

\* const interopDefault = r => r.default || r || []  (an array is truthy)
interopDefault(r) == IF "default" \in DOMAIN r THEN r.default ELSE r

\* styles[key](): the entry is () => import(aggregate).then(interopDefault);
\* without an entry styles[key] is undefined and calling it throws
LoadStyles(key) ==
  IF key \in DOMAIN StylesDirectory
  THEN [threw |-> FALSE, value |-> interopDefault(ImportAggregate(StylesDirectory[key]))]
  ELSE [threw |-> TRUE, value |-> << >>]

\* C8 (as claimed): invoking the loader of styles.mjs for a consuming module
\* with zero recorded styles yields an empty list and no error.
C8_EmptyRecordLoadsEmptyList ==
  BundleDone =>
    \A key \in DOMAIN cssMap :
       Len(cssMap[key].files) = 0 => LoadStyles(key) = [threw |-> FALSE, value |-> << >>]

\* C8 (amended): styles.mjs has no loader for a consuming module with zero
\* recorded styles, so invoking one fails; every loader it has yields the
\* non-empty list of the module's recorded styles, in recording order.
C8_LoadersOnlyForNonEmptyRecords ==
  BundleDone =>
    /\ \A key \in DOMAIN cssMap :
          Len(cssMap[key].files) = 0 =>
             (key \notin DOMAIN StylesDirectory /\ LoadStyles(key).threw)
    /\ \A key \in DOMAIN StylesDirectory :
          /\ ~ LoadStyles(key).threw
          /\ LoadStyles(key).value # << >>
          /\ LoadStyles(key).value = StyleIds(key)

\* a record without styles whose module is in the bundle, next to a loader
C8_Witness ==
  /\ BundleDone
  /\ \E key \in DOMAIN cssMap : Len(cssMap[key].files) = 0 /\ cssMap[key].inBundle = "true"
  /\ DOMAIN StylesDirectory # {}

\* C9: the resolveId handler clears moduleSideEffects only for a target kind
\* of id (ends in .vue, is #build/css, or is a stylesheet) that resolves:
\* never when shouldInline is false, always when it is true, and with a
\* predicate exactly when the predicate holds for the importer; for any
\* other id it returns nothing.
C9_GuardClearsSideEffects ==
  resolveOut # << >> =>
    LET id       == resolveOut.id
        importer == resolveOut.importer
        result   == resolveOut.result
        cleared  == result # Null
        target   == id = BuildCss \/ EndsWith(id, <<".", "vue">>) \/ isCSS(id)
        resolves == Resolve(id, importer) # Null
    IN  /\ cleared => (target /\ result.id = Resolve(id, importer) /\ ~ result.moduleSideEffects)
        /\ shouldInline = "false" => ~ cleared
        /\ shouldInline = "true" => (cleared <=> (target /\ resolves))
        /\ shouldInline = "function" =>
              (cleared <=> (target /\ resolves /\ shouldInlineFn(importer)))

\* with a predicate, the flag of a resolved target was cleared
C9_Witness ==
  /\ shouldInline = "function"
  /\ resolveOut # << >>
  /\ resolveOut.result # Null

\* C10 (as claimed): only the client pass's renderChunk changes the graph.
C10_OnlyClientRenderChunkWrites ==
  [][clientCSSMap' # clientCSSMap => (mode = "client" /\ rendered' # rendered)]_vars

\* C10 (amended): the graph is changed by the client pass's renderChunk and
\* by the client pass's transform of the entry module when inlining is
\* requested for it (which touches the entry's set only); in server mode
\* transform and generateBundle never change it, and renderChunk only adds
\* an empty set for the entry module when it walks the entry chunk and the
\* entry has no key yet, so no server-mode hook adds a value.
C10_GraphWriters ==
  [][clientCSSMap' # clientCSSMap =>
       \/ mode = "client" /\ rendered' # rendered
       \/ /\ mode = "client"
          /\ entry \in DOMAIN clientOut' \ DOMAIN clientOut
          /\ InlineRequested(entry)
          /\ DOMAIN clientCSSMap' = DOMAIN clientCSSMap \cup {entry}
          /\ \A k \in DOMAIN clientCSSMap : k # entry => clientCSSMap'[k] = clientCSSMap[k]
       \/ /\ mode = "server"
          /\ rendered' # rendered
          /\ entry \notin DOMAIN clientCSSMap
          /\ DOMAIN clientCSSMap' = DOMAIN clientCSSMap \cup {entry}
          /\ clientCSSMap'[entry] = << >>
          /\ \A k \in DOMAIN clientCSSMap : clientCSSMap'[k] = clientCSSMap[k]]_vars

\* the client pass's transform of the entry has put global CSS into the graph
\* before any chunk was rendered
C10_Witness ==
  /\ mode = "client"
  /\ rendered = {}
  /\ entry \in DOMAIN clientOut
  /\ entry \in DOMAIN clientCSSMap
  /\ Len(clientCSSMap[entry]) > 0

(* --------------------------- later claims ------------------------------ *)
\* the last path segment of an identifier, its query cut off
BaseName(name) ==
  LET path == StripQuery(name)
  IN  SubSeqFrom(path, LastIndexOf(path, "/") + 1)

\* whether a name has an extension left to strip: a dot that is not its first token
HasExtension(name) == \E i \in 2..Len(name) : name[i] = "."

\* whether an identifier carries a query: a "?" with something after it
HasQuery(name) == \E i \in 1..(Len(name) - 1) : name[i] = "?"

\* C14 (as claimed): filename is total and idempotent: it returns a value for
\* every identifier that has a base name, applying it to its own result gives
\* that result again, and an identifier without directory, extension and
\* query is returned unchanged.
C14_FilenameTotalIdempotent ==
  (filenameOut # << >> /\ BaseName(filenameOut.name) # Null) =>
     /\ filenameOut.result # Null
     /\ ~ filenameOut.again.threw
     /\ filenameOut.again.value = filenameOut.result
     /\ (\A i \in 1..Len(filenameOut.name) : filenameOut.name[i] \notin {"/", ".", "?"})
           => filenameOut.result = filenameOut.name

\* C14 (amended): filename returns a value exactly for the identifiers that
\* have a base name; the query does not count (an identifier with a query
\* gives what the part before the query gives); one call strips one
\* extension, so a second call gives the same result exactly when the first
\* result has no extension left; and an identifier without directory,
\* extension and query is returned unchanged.
C14_FilenameStripsOneExtension ==
  filenameOut # << >> =>
     LET name   == filenameOut.name
         result == filenameOut.result
     IN  /\ result # Null <=> BaseName(name) # Null
         /\ HasQuery(name) => result = filename(SubSeq(name, 1, IndexOf(name, "?") - 1))
         /\ result # Null =>
               /\ ~ filenameOut.again.threw
               /\ \A i \in 1..Len(result) : result[i] # "/"
               /\ filenameOut.again.value = result <=> ~ HasExtension(result)
               /\ IF HasExtension(BaseName(name))
                  THEN \E k \in 2..Len(BaseName(name)) :
                          /\ BaseName(name)[k] = "."
                          /\ \A j \in (k + 1)..Len(BaseName(name)) : BaseName(name)[j] # "."
                          /\ result = SubSeq(BaseName(name), 1, k - 1)
                  ELSE result = BaseName(name)
         /\ (\A i \in 1..Len(name) : name[i] \notin {"/", ".", "?"}) /\ name # Null
               => result = name

\* the helper was given a name with two extensions: the second call strips
\* the one the first call left
C14_Witness ==
  /\ filenameOut # << >>
  /\ filenameOut.result # Null
  /\ HasExtension(filenameOut.result)
  /\ filenameOut.again.value # filenameOut.result

(* ------------------------- generateBundle, again ----------------------- *)
\* C11: in client mode generateBundle emits nothing, neither an aggregate nor
\* a directory module, and leaves chunksWithInlinedCSS as it is; nothing has
\* been emitted as long as the client build runs.
C11_ClientGenerateBundleEmitsNothing ==
  /\ [](mode = "client" => emittedFiles = << >> /\ chunksWithInlinedCSS = {})
  /\ [][(mode = "client" /\ phase = "generate" /\ phase' = "done") =>
          /\ emittedFiles' = emittedFiles
          /\ chunksWithInlinedCSS' = chunksWithInlinedCSS]_vars

\* the client build's generateBundle has run, after its renderChunk filled the graph
C11_Witness ==
  /\ mode = "client"
  /\ phase = "done"
  /\ rendered # {}
  /\ DOMAIN clientCSSMap # {}

\* the references of the directory modules among the emitted files
DirectoryRefs ==
  {r \in 1..Len(emittedFiles) : emittedFiles[r].fileName = <<"styles", ".", "mjs">>}

\* the keys of the style records that have styles and are in the bundle
QualifyingKeys ==
  {key \in DOMAIN cssMap : Len(cssMap[key].files) > 0 /\ cssMap[key].inBundle = "true"}

\* C12: no directory module exists before the server build's generateBundle
\* has run and exactly one afterwards, also when no style record qualifies
\* (its mapping is then empty); there is exactly one aggregate per qualifying
\* record, and the keys of the directory are the qualifying records, each
\* mapped to an aggregate of its own.
C12_OneDirectoryOneAggregatePerRecord ==
  IF ~ BundleDone THEN DirectoryRefs = {} /\ AggregateRefs = {}
  ELSE /\ DirectoryRefs = {Len(emittedFiles)}
       /\ Cardinality(AggregateRefs) = Cardinality(QualifyingKeys)
       /\ DOMAIN StylesDirectory = QualifyingKeys
       /\ \A key \in QualifyingKeys :
             /\ StylesDirectory[key] \in AggregateRefs
             /\ emittedFiles[StylesDirectory[key]].name.base = filename(key)
       /\ \A k1, k2 \in QualifyingKeys :
             StylesDirectory[k1] = StylesDirectory[k2] => k1 = k2
       /\ QualifyingKeys = {} => StylesDirectory = << >>

\* a server bundle with two aggregates
C12_Witness ==
  /\ BundleDone
  /\ Cardinality(AggregateRefs) = 2
  /\ Cardinality(DOMAIN StylesDirectory) = 2

\* the record keys for which a step emitted an aggregate module
AggregatedInStep ==
  {key \in DOMAIN cssMap :
     \E r \in (Len(emittedFiles) + 1)..Len(emittedFiles') :
        /\ emittedFiles'[r].type = "asset"
        /\ emittedFiles'[r].fileName = Null
        /\ emittedFiles'[r].name.base = filename(key)
        /\ emittedFiles'[r].source.imports = cssMap[key].files}

\* C13: chunksWithInlinedCSS only grows, and only by the server build's
\* generateBundle, which adds exactly the record keys that received an
\* aggregate module in that run.
C13_TracksExactlyTheAggregated ==
  [][/\ chunksWithInlinedCSS \subseteq chunksWithInlinedCSS'
     /\ chunksWithInlinedCSS' # chunksWithInlinedCSS =>
           mode = "server" /\ phase = "generate" /\ phase' = "done"
     /\ (mode = "server" /\ phase = "generate" /\ phase' = "done") =>
           chunksWithInlinedCSS' = chunksWithInlinedCSS \cup AggregatedInStep]_vars

\* a server bundle that tracked one record and left another untracked
C13_Witness ==
  /\ BundleDone
  /\ chunksWithInlinedCSS # {}
  /\ \E key \in DOMAIN cssMap : key \notin chunksWithInlinedCSS

(* --------------------------- the inBundle flag ------------------------- *)
\* C15: inBundle is a latch. A record is never removed; a flag that is set,
\* to true or to false, is never changed again; a flag changes only when the
\* server pass's renderChunk walks a chunk that contains the record's module;
\* and after such a walk the flag of every recorded module of the chunk is set.
C15_InBundleIsALatch ==
  [][/\ \A key \in DOMAIN cssMap :
           /\ key \in DOMAIN cssMap'
           /\ cssMap[key].inBundle # "undefined" =>
                 cssMap'[key].inBundle = cssMap[key].inBundle
           /\ cssMap'[key].inBundle # cssMap[key].inBundle =>
                 /\ mode = "server"
                 /\ \E c \in rendered' \ rendered :
                       \E m \in Range(ChunkModules(Chunks[c])) : relativeToSrcDir(m) = key
     /\ mode = "server" =>
           \A c \in rendered' \ rendered :
              \A m \in Range(ChunkModules(Chunks[c])) :
                 relativeToSrcDir(m) \in DOMAIN cssMap =>
                    cssMap'[relativeToSrcDir(m)].inBundle # "undefined"]_vars

\* the entry's flag was set to true by the entry chunk and kept by the walk of
\* a later chunk that contains the entry but is not the entry chunk
C15_Witness ==
  /\ mode = "server"
  /\ rendered = 1..Len(Chunks)
  /\ Recorded(entry)
  /\ cssMap[relativeToSrcDir(entry)].inBundle = "true"
  /\ \E c \in rendered :
        Chunks[c].facadeModuleId # entry /\ entry \in Range(Chunks[c].moduleIds)

(* ------------------------ unresolvable references --------------------- *)
\* a warning of the server build names the reference raw of module M: it was
\* issued for the reference as written or for the file it stands for
Diagnosed(raw, M) ==
  \E w \in BagToSet(warnings["server"]) :
     w.subject = raw \/ w.key = ResolveTarget(raw, M)

\* C16: every style reference of a processed module that fails to resolve,
\* plainly or in its inline-and-mark-used form, whether it comes from the
\* graph or from a static import, has a warning and is left out of the
\* module's record.
C16_NoSilentDrop ==
  \A M \in ServerModules :
     Processed(M) =>
       \A raw \in FailedRaw(M) :
          /\ Diagnosed(raw, M)
          /\ ResolveTarget(raw, M) \notin Range(StyleIds(relativeToSrcDir(M)))

(* ------------------------- records and index -------------------------- *)
IsPrefix(s, t) == Len(s) <= Len(t) /\ SubSeq(t, 1, Len(s)) = s

\* every record stays and its files list only grows at its end
FilesAppendOnly ==
  \A key \in DOMAIN cssMap :
     key \in DOMAIN cssMap' /\ IsPrefix(cssMap[key].files, cssMap'[key].files)

\* C17 (as claimed): the files of a record are append-only, and a key of
\* idRefMap, once mapped to a chunk reference, keeps that reference.
C17_IndexNeverRemapped ==
  [][/\ FilesAppendOnly
     /\ \A k \in DOMAIN idRefMap :
           k \in DOMAIN idRefMap' /\ idRefMap'[k] = idRefMap[k]]_vars

\* C17 (amended): the files of a record are append-only and no key of
\* idRefMap is ever removed; idRefMap changes only when a style chunk is
\* emitted, and then the key of the chunk's stylesheet is mapped to the new
\* reference whether or not it had one, every other key keeping its
\* reference: the index holds the latest chunk of each stylesheet.
C17_IndexHoldsLatestReference ==
  [][/\ FilesAppendOnly
     /\ \A k \in DOMAIN idRefMap : k \in DOMAIN idRefMap'
     /\ IF mode = "server" /\ phase = "build" /\ Len(emittedFiles') = Len(emittedFiles) + 1
        THEN LET ref == Len(emittedFiles')
                 css == SubSeq(emittedFiles'[ref].id, 1,
                               Len(emittedFiles'[ref].id) - Len(InlineUsed))
             IN  /\ DOMAIN idRefMap' = DOMAIN idRefMap \cup {relativeToSrcDir(css)}
                 /\ idRefMap'[relativeToSrcDir(css)] = ref
                 /\ \A k \in DOMAIN idRefMap :
                       k # relativeToSrcDir(css) => idRefMap'[k] = idRefMap[k]
        ELSE idRefMap' = idRefMap]_vars

\* a stylesheet was emitted twice and the index holds the second reference
C17_Witness ==
  \E r1, r2 \in 1..Len(emittedFiles) :
     /\ r1 < r2
     /\ emittedFiles[r1].type = "chunk"
     /\ emittedFiles[r2].type = "chunk"
     /\ emittedFiles[r1].id = emittedFiles[r2].id
     /\ idRefMap[relativeToSrcDir(CssOf(r2))] = r2

(* ------------------------ interleaved transforms ----------------------- *)
\* the stylesheets the transform of M emits chunks for when it runs from its
\* start to its end with nothing in between: the graph's files that resolve
\* in both forms, then the static style imports that do, repeats included
AloneFiles(M) == GraphResolved(M) \o StaticResolved(M)

\* C18: however the transforms of the server pass interleave at their
\* suspension points, a step of the transform of one module changes the
\* style record of that module only, and when the transform of M is over its
\* record lists the chunks the transform emits when it runs alone against
\* the same graph and resolver: one chunk per file of AloneFiles(M), in that
\* order, named after M and numbered from 1.
C18_TransformsDoNotInterfere ==
  /\ [](\A M \in ServerModules :
          Processed(M) =>
            LET files == cssMap[relativeToSrcDir(M)].files
                alone == AloneFiles(M)
            IN  /\ Len(files) = Len(alone)
                /\ \A i \in 1..Len(files) :
                      emittedFiles[files[i]] = StyleChunk(M, i, alone[i]))
  /\ [][(mode = "server" /\ phase = "build") =>
          /\ Cardinality({M \in ServerModules : tr'[M] # tr[M]}) <= 1
          /\ \A key \in DOMAIN cssMap' :
                (key \notin DOMAIN cssMap \/ cssMap'[key] # cssMap[key]) =>
                   \A M \in ServerModules :
                      tr'[M] # tr[M] => relativeToSrcDir(M) = key]_vars

\* two transforms ran interleaved: a chunk of one module was emitted between
\* two chunks of another
C18_Witness ==
  \E M1, M2 \in ServerModules :
     /\ M1 # M2 /\ Processed(M1) /\ Processed(M2)
     /\ \E r1, r3 \in Range(cssMap[relativeToSrcDir(M1)].files) :
           \E r2 \in Range(cssMap[relativeToSrcDir(M2)].files) : r1 < r2 /\ r2 < r3

(* --------------------------- no-op transforms -------------------------- *)
\* the cases in which the server pass's transform of id is to do nothing
NoOpCase(id) ==
  \/ id \notin DOMAIN clientCSSMap /\ ~ isIsland(id)
  \/ QueryTruthy(search(id), "macro")
  \/ QueryTruthy(search(id), "nuxt_component")
  \/ ~ isIsland(id) /\ InlineDisallowed(id)

\* C19: in each of these cases the call of the server pass's transform ends
\* at once and leaves the style records, the emitted files, the warnings and
\* idRefMap (and the graph) as they were.
C19_GuardedTransformIsNoOp ==
  [][\A id \in ServerModules :
        (mode = "server" /\ tr[id].pc = "idle" /\ tr'[id].pc # "idle" /\ NoOpCase(id)) =>
           /\ tr'[id].pc = "done"
           /\ cssMap' = cssMap
           /\ cssMapKeys' = cssMapKeys
           /\ emittedFiles' = emittedFiles
           /\ warnings' = warnings
           /\ warnCache' = warnCache
           /\ idRefMap' = idRefMap
           /\ clientCSSMap' = clientCSSMap]_vars

\* the transforms of a component wrapper of an island and of a graph module
\* for which inlining is disallowed have run and nothing was recorded
C19_Witness ==
  /\ mode = "server"
  /\ phase = "build"
  /\ tr[IWrapper].pc = "done"
  /\ tr[AVue].pc = "done"
  /\ AVue \in DOMAIN clientCSSMap
  /\ InlineDisallowed(AVue)
  /\ cssMap = << >>

\* the module ids a chunk names: its facade module, when it has one, and its modules
NamedByChunk(chunk) ==
  {m \in {chunk.facadeModuleId} \cup Range(chunk.moduleIds) : m # Null}

\* C20: when renderChunk of the client pass has walked a chunk, the graph has a
\* key for the chunk's facade module and for every module of the chunk, and for
\* the entry module when the chunk is the entry chunk; no key of the graph is
\* lost, no key is made for a missing facade module, and the call returns null
\* without raising, also for a chunk that has no facade module.
C20_ClientRenderChunkEnsuresKeys ==
  [][\A c \in rendered' \ rendered :
        mode = "client" =>
          LET chunk == Chunks[c]
          IN  /\ NamedByChunk(chunk) \subseteq DOMAIN clientCSSMap'
              /\ chunk.facadeModuleId = entry => entry \in DOMAIN clientCSSMap'
              /\ DOMAIN clientCSSMap \subseteq DOMAIN clientCSSMap'
              /\ Null \notin DOMAIN clientCSSMap'
              /\ c \in DOMAIN renderOut'
              /\ renderOut'[c].code = Null
              /\ ~ renderOut'[c].raised]_vars

\* the client pass has walked the chunk that has no facade module: its modules
\* that are no stylesheets have a key with nothing in it, and the call returned null
C20_Witness ==
  /\ mode = "client"
  /\ \E c \in rendered :
       /\ Chunks[c].facadeModuleId = Null
       /\ c \in DOMAIN renderOut
       /\ renderOut[c].code = Null
       /\ UTs \in Range(Chunks[c].moduleIds)
       /\ UTs \in DOMAIN clientCSSMap
       /\ clientCSSMap[UTs] = << >>

\* the modules of a chunk that are a stylesheet and a single-file-component module
ComponentStyles(chunk) == {m \in NamedByChunk(chunk) : isCSS(m) /\ isVue(m)}

\* no key of the graph loses a member
GraphOnlyGrows ==
  \A k \in DOMAIN clientCSSMap :
     /\ k \in DOMAIN clientCSSMap'
     /\ Range(clientCSSMap[k]) \subseteq Range(clientCSSMap'[k])

\* C21: when renderChunk of the client pass walks a chunk, every module of the
\* chunk that is both a stylesheet and a single-file-component module is
\* recorded under its own id and under its parent id, the id without its
\* query; and no step of the build takes a member out of a set of the graph,
\* so the parent keeps every style sub-module seen in any chunk.
C21_ComponentStyleUnderOwnAndParentId ==
  [][/\ GraphOnlyGrows
     /\ \A c \in rendered' \ rendered :
          mode = "client" =>
            \A m \in ComponentStyles(Chunks[c]) :
               /\ StripQuery(m) # m
               /\ m \in DOMAIN clientCSSMap'
               /\ m \in Range(clientCSSMap'[m])
               /\ StripQuery(m) \in DOMAIN clientCSSMap'
               /\ m \in Range(clientCSSMap'[StripQuery(m)])]_vars

\* the client pass has walked the chunk that holds the style module of a.vue,
\* which is now recorded under itself and under a.vue
C21_Witness ==
  /\ mode = "client"
  /\ \E c \in rendered : AStyle \in ComponentStyles(Chunks[c])
  /\ AVue \in DOMAIN clientCSSMap
  /\ AStyle \in DOMAIN clientCSSMap
  /\ AStyle \in Range(clientCSSMap[AVue])
  /\ AStyle \in Range(clientCSSMap[AStyle])

\* the stylesheet modules a chunk names
ChunkStyles(chunk) == {m \in NamedByChunk(chunk) : isCSS(m)}

\* what the graph holds under a module id, nothing when the id is no key
GraphMembers(map, id) == IF id \in DOMAIN map THEN Range(map[id]) ELSE {}

\* C22: when renderChunk of the client pass walks the entry chunk, every
\* stylesheet module of the chunk is recorded under the chunk's facade module,
\* the entry; when it walks another chunk, nothing is added under the entry
\* module, also when the entry module is one of the chunk's modules.
C22_EntryChunkStylesUnderEntry ==
  [][\A c \in rendered' \ rendered :
        mode = "client" =>
          LET chunk == Chunks[c]
          IN  IF chunk.facadeModuleId = entry
              THEN ChunkStyles(chunk) \subseteq GraphMembers(clientCSSMap', chunk.facadeModuleId)
              ELSE GraphMembers(clientCSSMap', entry) = GraphMembers(clientCSSMap, entry)]_vars

\* the client pass has walked both chunks: the stylesheet of the entry chunk is
\* under the entry module and the stylesheet of the other chunk, which also
\* holds the entry module, is not
C22_Witness ==
  /\ mode = "client"
  /\ rendered = 1..Len(Chunks)
  /\ \E c \in rendered : Chunks[c].facadeModuleId = entry /\ GCss \in ChunkStyles(Chunks[c])
  /\ \E c \in rendered :
       /\ Chunks[c].facadeModuleId # entry
       /\ entry \in NamedByChunk(Chunks[c])
       /\ AStyle \in ChunkStyles(Chunks[c])
  /\ GCss \in GraphMembers(clientCSSMap, entry)
  /\ AStyle \notin GraphMembers(clientCSSMap, entry)

\* the names of the style chunks recorded for a module, in the order of emission
StyleChunkNames(rel) ==
  [i \in 1..Len(cssMap[rel].files) |-> emittedFiles[cssMap[rel].files[i]].name]

\* the names of the style chunks of a module carry 1, 2, 3, ... in the order of
\* emission, so no two of them are the same
CountersAreConsecutive ==
  \A rel \in DOMAIN cssMap :
     LET names == StyleChunkNames(rel)
     IN  /\ \A i \in DOMAIN names : names[i].ctr = i
         /\ \A i, j \in DOMAIN names : i # j => names[i] # names[j]

\* an iteration of one of the two loops of transform either emits a chunk named
\* after the module with the counter's next value, or leaves the counter alone
CounterStep ==
  \A id \in DOMAIN tr :
     (tr[id].pc \in {"graph", "static"} /\ tr'[id] # tr[id]) =>
        IF Len(emittedFiles') > Len(emittedFiles)
        THEN LET new == emittedFiles'[Len(emittedFiles')]
             IN  /\ Len(emittedFiles') = Len(emittedFiles) + 1
                 /\ tr'[id].styleCtr = tr[id].styleCtr + 1
                 /\ new.type = "chunk"
                 /\ new.name = [base |-> filename(id), ctr |-> tr'[id].styleCtr]
                 /\ new.name.ctr = Len(cssMap'[relativeToSrcDir(id)].files)
        ELSE tr'[id].styleCtr = tr[id].styleCtr

\* C23: the style chunks emitted for a module are named with a counter of that
\* module's transform that starts at 1 and goes up by one with every chunk
\* emitted, in the loop over the graph's files and in the loop over the static
\* imports alike; the names of one module's style chunks are pairwise distinct,
\* and an iteration that emits nothing (a file that is not resolved, an import
\* that is no style import) uses up no counter value.
C23_StyleChunkCounter ==
  /\ []CountersAreConsecutive
  /\ [][CounterStep]_vars

\* a.vue got two style chunks, one from the graph and one from a static import
\* that follows a skipped import: they are numbered 1 and 2; and entry.ts got
\* one chunk, numbered 1, while another of its files could not be resolved
C23_Witness ==
  /\ tr[AVue].pc = "done"
  /\ relativeToSrcDir(AVue) \in DOMAIN cssMap
  /\ LET names == StyleChunkNames(relativeToSrcDir(AVue))
     IN  /\ Len(names) = 2
         /\ names[1] = [base |-> filename(AVue), ctr |-> 1]
         /\ names[2] = [base |-> filename(AVue), ctr |-> 2]
  /\ emittedFiles[cssMap[relativeToSrcDir(AVue)].files[1]].id = AStyle \o InlineUsed
  /\ emittedFiles[cssMap[relativeToSrcDir(AVue)].files[2]].id = XCss \o InlineUsed
  /\ ~ IsStyleImport(Code(AVue)[1])
  /\ tr[EntryId].pc = "done"
  /\ relativeToSrcDir(EntryId) \in DOMAIN cssMap
  /\ Len(GraphFiles(EntryId)) = 2
  /\ WarnCount("server", GCss) = 1
  /\ LET names == StyleChunkNames(relativeToSrcDir(EntryId))
     IN  Len(names) = 1 /\ names[1].ctr = 1

\* whether the plain and the inline-and-mark-used resolution of a global CSS
\* file both succeed, each tried without and then with the importer
BothResolve(file, id) ==
  /\ Coalesce(Resolve(file, Null), Resolve(file, id)) # Null
  /\ Coalesce(Resolve(file \o InlineUsed, Null), Resolve(file \o InlineUsed, id)) # Null

\* the module a global CSS file names
GlobalTarget(file, id) == Coalesce(ResolveTarget(file, Null), ResolveTarget(file, id))

\* how often a file occurs among the imports prepended to a module's code
PrependCount(out, file) == Cardinality({i \in 1..Len(out) : out[i] = file})

\* the outcome of the client pass's transform of one module
ClientTransformOutcome(id) ==
  IF id = entry /\ InlineRequested(id)
  THEN /\ \A file \in Range(globalCSS) :
            LET recorded  == GlobalTarget(file, id) \in GraphMembers(clientCSSMap', entry)
                prepended == PrependCount(clientOut'[id], file)
            IN  IF BothResolve(file, id)
                THEN /\ recorded
                     /\ prepended = 0
                     /\ WarnCount("client", file)' = WarnCount("client", file)
                ELSE /\ ~ recorded
                     /\ prepended = 1
                     /\ file \in warnCache'["client"]
                     /\ WarnCount("client", file)' = 1
       /\ \A k \in DOMAIN clientCSSMap : k # entry => clientCSSMap'[k] = clientCSSMap[k]
  ELSE /\ clientOut'[id] = << >>
       /\ clientCSSMap' = clientCSSMap
       /\ warnings' = warnings
       /\ warnCache' = warnCache

\* C24: in the client pass, transform of the entry module with inlining
\* requested for it leaves every global CSS file in exactly one of two states:
\* recorded under the entry in the graph, when its plain and its
\* inline-and-mark-used resolution both succeed, or prepended once as an import
\* to the entry's code with one warning, when one of them fails; transform of
\* another module, or of the entry without inlining requested, returns no code
\* and changes neither the graph nor the warnings.
C24_GlobalCSSRecordedOrPrepended ==
  [][\A id \in DOMAIN clientOut' \ DOMAIN clientOut :
        mode = "client" /\ ClientTransformOutcome(id)]_vars

\* the entry was transformed with inlining on while one global CSS file could
\* not be resolved for inlining: that file is prepended and warned about, the
\* other is in the graph; and another module was transformed to no effect
C24_Witness ==
  /\ mode = "client"
  /\ rendered = {}
  /\ shouldInline = "true"
  /\ entry \in DOMAIN clientOut
  /\ AVue \in DOMAIN clientOut
  /\ clientOut[AVue] = << >>
  /\ ~ BothResolve(GCss, entry)
  /\ BothResolve(XCss, entry)
  /\ clientOut[entry] = <<GCss>>
  /\ clientCSSMap[entry] = <<XCss>>
  /\ WarnCount("client", GCss) = 1
  /\ WarnCount("client", XCss) = 0

====
